---- MODULE Spec2Model ----
(***************************************************************************)
(* A model of govfx's computed-style helpers and colour conversion:        *)
(* ComputedStyleMap (Add, AddMore, Has, Get), GetComputedStyleMap with its *)
(* vendor-prefix stripping loop, Vendorize, ToRGB and RGBA, and the older  *)
(* vfx versions of Add and RGBA kept in css.go.                            *)
(*                                                                         *)
(* A Go string is a sequence of one-character strings, so that prefixes,   *)
(* trimming, splitting and formatting are computed and not assumed.        *)
(***************************************************************************)
EXTENDS Integers, Sequences, FiniteSets, TLC

VARIABLES
    pkg,                         \* the package the program imports: "govfx", or the older "vfx" of css.go
    hex, alpha, rgba,            \* RGBA: its arguments and its result
    key, first, second,          \* one vendored key: its style map, and the map of that map's key
    c, prev, last, got, panicked,\* a ComputedStyleMap, and the last call on it: the map before, the call, Get's result
    initial, calls,              \* the map as it was constructed, and how many calls were made on it
    css, keyOrder, styleMap         \* GetComputedStyleMap: the computed style, range's key order, the result

vars == <<pkg, hex, alpha, rgba, key, first, second,
          c, prev, last, got, panicked, initial, calls, css, keyOrder, styleMap>>

colorVars == <<hex, alpha, rgba>>
vendorVars == <<key, first, second>>
mapVars == <<c, prev, last, got, panicked, initial, calls>>
styleVars == <<css, keyOrder, styleMap>>

\* Go's nil error, and a nil *ComputedStyle.
Nil == "nil"
NilStyle == [nil |-> TRUE]

---------------------------------------------------------------------------
(* Go's strings package and fmt verbs, on sequences of characters.         *)

HasPrefix(s, prefix) ==
    /\ Len(s) >= Len(prefix)
    /\ SubSeq(s, 1, Len(prefix)) = prefix

TrimPrefix(s, prefix) ==
    IF HasPrefix(s, prefix) THEN SubSeq(s, Len(prefix) + 1, Len(s)) ELSE s

IsSpace(ch) == ch \in {" ", "\t", "\n", "\r"}

RECURSIVE TrimLeft(_)
TrimLeft(s) ==
    IF s # <<>> /\ IsSpace(Head(s)) THEN TrimLeft(Tail(s)) ELSE s

RECURSIVE TrimRight(_)
TrimRight(s) ==
    IF s # <<>> /\ IsSpace(s[Len(s)]) THEN TrimRight(SubSeq(s, 1, Len(s) - 1)) ELSE s

TrimSpace(s) == TrimRight(TrimLeft(s))

\* strings.Split(s, ""): one string per character.
SplitChars(s) == [i \in 1..Len(s) |-> <<s[i]>>]

DecDigits == <<"0", "1", "2", "3", "4", "5", "6", "7", "8", "9">>

\* The verb %d on a non-negative int.
RECURSIVE FormatInt(_)
FormatInt(n) ==
    IF n < 10 THEN <<DecDigits[n + 1]>>
    ELSE FormatInt(n \div 10) \o <<DecDigits[(n % 10) + 1]>>

\* The verb %.2f on the non-negative quotient num/den: the nearest hundredth.
\* float64(alpha)/100 is within one ulp of the exact quotient, which never
\* moves a two-decimal rounding of a multiple of 1/100.
FormatFloat2(num, den) ==
    LET cents == (2 * 100 * num + den) \div (2 * den)
    IN  FormatInt(cents \div 100) \o <<".">>
            \o <<DecDigits[((cents \div 10) % 10) + 1], DecDigits[(cents % 10) + 1]>>

---------------------------------------------------------------------------
(* Colour conversion.                                                      *)

HexChars == <<"0", "1", "2", "3", "4", "5", "6", "7", "8", "9",
              "a", "b", "c", "d", "e", "f">>
HexUpper == <<"0", "1", "2", "3", "4", "5", "6", "7", "8", "9",
              "A", "B", "C", "D", "E", "F">>

HexDigitValue(ch) ==
    IF \E i \in 1..16 : HexChars[i] = ch
    THEN (CHOOSE i \in 1..16 : HexChars[i] = ch) - 1
    ELSE (CHOOSE i \in 1..16 : HexUpper[i] = ch) - 1

\* parseIntBase16 is declared outside the files at hand: base-16 parsing of a
\* string of hexadecimal digits, either case.
RECURSIVE parseIntBase16(_)
parseIntBase16(s) ==
    IF s = <<>> THEN 0
    ELSE 16 * parseIntBase16(SubSeq(s, 1, Len(s) - 1)) + HexDigitValue(s[Len(s)])

doubleString(str) == str \o str

ToRGBSwapped(hexIn) ==
    LET h == IF HasPrefix(hexIn, <<"#">>) THEN TrimPrefix(hexIn, <<"#">>) ELSE hexIn
    IN  IF Len(h) < 6
        THEN LET parts == SplitChars(h)
             IN  [red   |-> parseIntBase16(doubleString(parts[1])),
                  green |-> parseIntBase16(doubleString(parts[3])),
                  blue  |-> parseIntBase16(doubleString(parts[2]))]
        ELSE [red   |-> parseIntBase16(SubSeq(h, 1, 2)),
              green |-> parseIntBase16(SubSeq(h, 5, 6)),
              blue  |-> parseIntBase16(SubSeq(h, 3, 4))]

ToRGB(hexIn) ==
    LET h == IF HasPrefix(hexIn, <<"#">>) THEN TrimPrefix(hexIn, <<"#">>) ELSE hexIn
    IN  IF Len(h) < 6
        THEN LET parts == SplitChars(h)
             IN  [red   |-> parseIntBase16(doubleString(parts[1])),
                  green |-> parseIntBase16(doubleString(parts[2])),
                  blue  |-> parseIntBase16(doubleString(parts[3]))]
        ELSE [red   |-> parseIntBase16(SubSeq(h, 1, 2)),
              green |-> parseIntBase16(SubSeq(h, 3, 4)),
              blue  |-> parseIntBase16(SubSeq(h, 5, 6))]

\* fmt.Sprintf("rgba(%d,%d,%d,%.2f)", r, g, b, af)
SprintfRgba(r, g, b, num, den) ==
    <<"r", "g", "b", "a", "(">> \o FormatInt(r) \o <<",">> \o FormatInt(g)
        \o <<",">> \o FormatInt(b) \o <<",">> \o FormatFloat2(num, den) \o <<")">>

RGBA(hexIn, alphaIn) ==
    LET rgb == ToRGB(hexIn)
    IN  SprintfRgba(rgb.red, rgb.green, rgb.blue, alphaIn, 100)

\* css.go, package vfx: the same conversion written in one function.
vfxRGBA(hexIn, alphaIn) ==
    LET h == IF HasPrefix(hexIn, <<"#">>) THEN TrimPrefix(hexIn, <<"#">>) ELSE hexIn
    IN  IF Len(h) < 6
        THEN LET parts == SplitChars(h)
             IN  SprintfRgba(parseIntBase16(doubleString(parts[1])),
                             parseIntBase16(doubleString(parts[2])),
                             parseIntBase16(doubleString(parts[3])), alphaIn, 100)
        ELSE SprintfRgba(parseIntBase16(SubSeq(h, 1, 2)),
                         parseIntBase16(SubSeq(h, 3, 4)),
                         parseIntBase16(SubSeq(h, 5, 6)), alphaIn, 100)

---------------------------------------------------------------------------
(* Vendor prefixes.                                                        *)

vendorTags == << <<"m", "o", "z">>, <<"w", "e", "b", "k", "i">>, <<"O">>, <<"m", "s">> >>

\* fmt.Sprintf("-%s-", vo) and fmt.Sprintf("-%s-%s", vn, u)
Dashed(vo) == <<"-">> \o vo \o <<"-">>

Vendorize(u) == [i \in 1..Len(vendorTags) |-> Dashed(vendorTags[i]) \o u]

\* strings.TrimLeft(s, cutset): every leading character of the cutset goes.
RECURSIVE TrimLeftCutset(_, _)
TrimLeftCutset(s, cutset) ==
    IF s # <<>> /\ (\E i \in 1..Len(cutset) : cutset[i] = Head(s))
    THEN TrimLeftCutset(Tail(s), cutset)
    ELSE s

\* The round written with TrimLeft where TrimPrefix is meant.
CleanTagTrimLeft(name, vo) == TrimLeftCutset(TrimLeftCutset(name, vo), Dashed(vo))

\* One round of the loop over vendorTags: the bare tag, then the dashed tag.
CleanTag(name, vo) == TrimPrefix(TrimPrefix(name, vo), Dashed(vo))

RECURSIVE CleanFrom(_, _)
CleanFrom(name, i) ==
    IF i > Len(vendorTags) THEN name
    ELSE CleanFrom(CleanTag(name, vendorTags[i]), i + 1)

\* The value of unvendoredName after the loop, for the key it started from.
unvendoredName(k) == CleanFrom(k, 1)

---------------------------------------------------------------------------
(* ComputedStyle and ComputedStyleMap. A map is a function whose domain is *)
(* its set of keys; a *ComputedStyle is the record it points to, or Nil.   *)

ErrNotFound == "ErrNotFound"

emptyMap == << >>

ComputedStyle(name, vendorName, value, values, priority) ==
    [Name |-> name, VendorName |-> vendorName, Value |-> value,
     Values |-> values, Priority |-> priority]

Has(m, name) == name \in DOMAIN m

GetDefaulted(m, name) ==
    IF name \in DOMAIN m
    THEN [cs |-> m[name], err |-> Nil]
    ELSE [cs |-> ComputedStyle(name, name, <<>>, <<>>, FALSE), err |-> Nil]

Get(m, name) ==
    IF name \in DOMAIN m
    THEN [cs |-> m[name], err |-> Nil]
    ELSE [cs |-> NilStyle, err |-> ErrNotFound]

AddKeepsPriority(m, name, value, priority) ==
    IF ~Has(m, name)
    THEN (name :> ComputedStyle(name, name, value, <<value>>, FALSE)) @@ m
    ELSE [m EXCEPT ![name].Value = value, ![name].Values = <<value>>]

Add(m, name, value, priority) ==
    IF ~Has(m, name)
    THEN (name :> ComputedStyle(name, name, value, <<value>>, priority)) @@ m
    ELSE [m EXCEPT ![name].Value = value,
                   ![name].Priority = priority,
                   ![name].Values = <<value>>]

\* The class [\w\-0-9] of propName.
WordChars ==
    {"a", "b", "c", "d", "e", "f", "g", "h", "i", "j", "k", "l", "m",
     "n", "o", "p", "q", "r", "s", "t", "u", "v", "w", "x", "y", "z",
     "A", "B", "C", "D", "E", "F", "G", "H", "I", "J", "K", "L", "M",
     "N", "O", "P", "Q", "R", "S", "T", "U", "V", "W", "X", "Y", "Z",
     "0", "1", "2", "3", "4", "5", "6", "7", "8", "9", "_", "-"}

RECURSIVE TakeWord(_)
TakeWord(s) ==
    IF s # <<>> /\ Head(s) \in WordChars THEN <<Head(s)>> \o TakeWord(Tail(s)) ELSE <<>>

\* propName.FindStringSubmatch(s): a nil slice when nothing matches, else the
\* first group of the leftmost match, which is the first longest run of
\* WordChars (the optional parentheses after it are outside the group).
RECURSIVE propNameSubmatch(_)
propNameSubmatch(s) ==
    IF s = <<>> THEN [nil |-> TRUE, group1 |-> <<>>]
    ELSE IF Head(s) \in WordChars THEN [nil |-> FALSE, group1 |-> TakeWord(s)]
    ELSE propNameSubmatch(Tail(s))

\* The loop that never sets found.
RECURSIVE AddMoreLoopFoundUnset(_, _, _, _, _)
AddMoreLoopFoundUnset(values, ind, prop, value, found) ==
    IF ind > Len(values) THEN [Values |-> values, found |-> FALSE, panic |-> FALSE]
    ELSE LET valName == propNameSubmatch(values[ind])
         IN  IF valName.nil
             THEN [Values |-> values, found |-> FALSE, panic |-> TRUE]
             ELSE IF valName.group1 # prop
             THEN AddMoreLoopFoundUnset(values, ind + 1, prop, value, FALSE)
             ELSE AddMoreLoopFoundUnset([values EXCEPT ![ind] = value], ind + 1, prop, value, FALSE)

\* The loop of AddMore from index ind on; indexing a nil submatch panics and
\* leaves the entries replaced so far.
RECURSIVE AddMoreLoop(_, _, _, _, _)
AddMoreLoop(values, ind, prop, value, found) ==
    IF ind > Len(values) THEN [Values |-> values, found |-> found, panic |-> FALSE]
    ELSE LET valName == propNameSubmatch(values[ind])
         IN  IF valName.nil
             THEN [Values |-> values, found |-> found, panic |-> TRUE]
             ELSE IF valName.group1 # prop
             THEN AddMoreLoop(values, ind + 1, prop, value, found)
             ELSE AddMoreLoop([values EXCEPT ![ind] = value], ind + 1, prop, value, TRUE)

\* AddMore without its case for a lone "none".
AddMoreNoneKept(m, name, value, priority) ==
    IF ~Has(m, name)
    THEN [map |-> (name :> ComputedStyle(name, name, value, <<value>>, priority)) @@ m,
          panic |-> FALSE]
    ELSE LET prop == propNameSubmatch(value)
         IN  IF prop.nil
             THEN [map |-> m, panic |-> TRUE]
             ELSE LET loop == AddMoreLoop(m[name].Values, 1, prop.group1, value, FALSE)
                      after == IF ~loop.panic /\ ~loop.found
                               THEN Append(loop.Values, value)
                               ELSE loop.Values
                  IN  [map |-> [m EXCEPT ![name].Values = after], panic |-> loop.panic]

\* AddMore that, like Add, stores the priority of a name it already holds.
AddMoreSetsPriority(m, name, value, priority) ==
    IF ~Has(m, name)
    THEN [map |-> (name :> ComputedStyle(name, name, value, <<value>>, priority)) @@ m,
          panic |-> FALSE]
    ELSE IF Len(m[name].Values) = 1 /\ m[name].Values[1] = <<"n", "o", "n", "e">>
    THEN [map |-> [m EXCEPT ![name].Values[1] = value, ![name].Priority = priority],
          panic |-> FALSE]
    ELSE LET prop == propNameSubmatch(value)
         IN  IF prop.nil
             THEN [map |-> m, panic |-> TRUE]
             ELSE LET loop == AddMoreLoop(m[name].Values, 1, prop.group1, value, FALSE)
                      after == IF ~loop.panic /\ ~loop.found
                               THEN Append(loop.Values, value)
                               ELSE loop.Values
                  IN  [map |-> [m EXCEPT ![name].Values = after, ![name].Priority = priority],
                       panic |-> loop.panic]

\* AddMore's result: the map, and whether the call panicked.
AddMore(m, name, value, priority) ==
    IF ~Has(m, name)
    THEN [map |-> (name :> ComputedStyle(name, name, value, <<value>>, priority)) @@ m,
          panic |-> FALSE]
    ELSE IF Len(m[name].Values) = 1 /\ m[name].Values[1] = <<"n", "o", "n", "e">>
    THEN [map |-> [m EXCEPT ![name].Values[1] = value], panic |-> FALSE]
    ELSE LET prop == propNameSubmatch(value)
         IN  IF prop.nil
             THEN [map |-> m, panic |-> TRUE]
             ELSE LET loop == AddMoreLoop(m[name].Values, 1, prop.group1, value, FALSE)
                      after == IF ~loop.panic /\ ~loop.found
                               THEN Append(loop.Values, value)
                               ELSE loop.Values
                  IN  [map |-> [m EXCEPT ![name].Values = after], panic |-> loop.panic]

\* css.go, package vfx: a record has no Values and no VendorName, and Add
\* always stores a new record.
vfxComputedStyle(name, value, priority) ==
    [Name |-> name, Value |-> value, Priority |-> priority]

vfxAdd(m, name, value, priority) ==
    (name :> vfxComputedStyle(name, value, priority)) @@ m

vfxHas(m, name) == name \in DOMAIN m

vfxGet(m, name) ==
    IF name \in DOMAIN m
    THEN [cs |-> m[name], err |-> Nil]
    ELSE [cs |-> NilStyle, err |-> ErrNotFound]

---------------------------------------------------------------------------
(* GetComputedStyleMap. The computed style is [nil, props]: nil when the   *)
(* window has no style for the element, else props maps each property key  *)
(* to [val, priority], priority being what getPropertyPriority answers:    *)
(* [nil, str].                                                             *)

GetComputedStylePriority(style, k) ==
    IF style.props[k].priority.nil THEN [n |-> 0, err |-> ErrNotFound]
    ELSE IF TrimSpace(style.props[k].priority.str) = <<>> THEN [n |-> 0, err |-> Nil]
    ELSE [n |-> 1, err |-> Nil]

\* The body of the loop over css.ToMap() for one key.
StyleLoopBody(m, style, k) ==
    LET priority == GetComputedStylePriority(style, k).n
        name == unvendoredName(k)
        val == style.props[k].val
        vals == IF TrimSpace(val) # <<"n", "o", "n", "e">> THEN <<val>> ELSE <<>>
    IN  (name :> ComputedStyle(name, k, val, vals, priority > 0)) @@ m

RECURSIVE StyleLoop(_, _, _, _)
StyleLoop(m, style, keys, i) ==
    IF i > Len(keys) THEN m
    ELSE StyleLoop(StyleLoopBody(m, style, keys[i]), style, keys, i + 1)

\* keys is the order in which range yields the keys of css.ToMap().
GetComputedStyleMap(style, keys) ==
    IF style.nil THEN [nil |-> TRUE, map |-> emptyMap, err |-> ErrNotFound]
    ELSE [nil |-> FALSE, map |-> StyleLoop(emptyMap, style, keys, 1), err |-> Nil]

---------------------------------------------------------------------------
(* The strings the specifications draw their inputs from.                  *)

transform == <<"t", "r", "a", "n", "s", "f", "o", "r", "m">>
top == <<"t", "o", "p">>
orderProp == <<"o", "r", "d", "e", "r">>
none == <<"n", "o", "n", "e">>
scale2 == <<"s", "c", "a", "l", "e", "(", "2", ")">>
scale3 == <<"s", "c", "a", "l", "e", "(", "3", ")">>
rotate9 == <<"r", "o", "t", "a", "t", "e", "(", "9", "d", "e", "g", ")">>
important == <<"i", "m", "p", "o", "r", "t", "a", "n", "t">>
webkit == <<"w", "e", "b", "k", "i", "t">>
fff == <<"f", "f", "f">>

Packages == {"govfx", "vfx"}

\* What a variable holds before the call that sets it.
notCalled == [done |-> FALSE]

IdleColor == hex = <<>> /\ alpha = 0 /\ rgba = notCalled
IdleVendor == key = <<>> /\ first = notCalled /\ second = notCalled
IdleMap == c = emptyMap /\ prev = emptyMap /\ last = [op |-> "none"]
            /\ got = notCalled /\ panicked = FALSE /\ initial = emptyMap /\ calls = 0
IdleStyle == css = [nil |-> TRUE, props |-> emptyMap] /\ keyOrder = <<>> /\ styleMap = notCalled

---------------------------------------------------------------------------
(* RGBA, applied once to every input.                                      *)

\* Alpha values range from 0 to MaxAlpha.
MaxAlpha == 100

HexDigitSample == {"0", "9", "a", "f", "F"}
AlphaSample == {0, 5, 50, 99, 100}

HexStrings == [1..3 -> HexDigitSample] \cup [1..6 -> HexDigitSample]
HexInputs == HexStrings \cup {<<"#">> \o h : h \in HexStrings}
HexFew == {fff, <<"#", "0", "a", "9", "F", "0", "f">>}

InitRGBA ==
    /\ pkg \in Packages
    /\ \/ hex \in HexInputs /\ alpha \in AlphaSample
       \/ hex \in HexFew /\ alpha \in 0..MaxAlpha
    /\ rgba = notCalled
    /\ IdleVendor /\ IdleMap /\ IdleStyle

CallRGBA ==
    /\ pkg = "govfx"
    /\ ~rgba.done
    /\ rgba' = [done |-> TRUE, str |-> RGBA(hex, alpha)]
    /\ UNCHANGED <<pkg, hex, alpha, vendorVars, mapVars, styleVars>>

CallVfxRGBA ==
    /\ pkg = "vfx"
    /\ ~rgba.done
    /\ rgba' = [done |-> TRUE, str |-> vfxRGBA(hex, alpha)]
    /\ UNCHANGED <<pkg, hex, alpha, vendorVars, mapVars, styleVars>>

NextRGBA == CallRGBA \/ CallVfxRGBA

SpecRGBA == InitRGBA /\ [][NextRGBA]_vars

---------------------------------------------------------------------------
(* A ComputedStyleMap under any sequence of Add, AddMore and Get calls: a  *)
(* new map, or the map GetComputedStyleMap made of an element's style. A   *)
(* panic ends the program.                                                 *)

\* The longest sequence of calls followed.
MaxCalls == 3

Names == {transform, top}
Values == {none, scale2, scale3, rotate9, <<>>}

\* The maps of the styles that hold one vendored key.
ElementMaps ==
    {GetComputedStyleMap(
        [nil |-> FALSE,
         props |-> (Vendorize(transform)[1] :> [val |-> v, priority |-> [nil |-> FALSE, str |-> p]])
                      @@ emptyMap],
        <<Vendorize(transform)[1]>>).map : v \in {none, rotate9}, p \in {<<>>, important}}

Init ==
    /\ pkg \in Packages
    /\ c \in IF pkg = "govfx" THEN {emptyMap} \cup ElementMaps ELSE {emptyMap}
    /\ initial = c
    /\ prev = c /\ last = [op |-> "none"] /\ got = notCalled
    /\ panicked = FALSE /\ calls = 0
    /\ IdleColor /\ IdleVendor /\ IdleStyle

AddCall(name, value, priority) ==
    /\ pkg = "govfx" /\ ~panicked /\ calls < MaxCalls
    /\ calls' = calls + 1
    /\ c' = Add(c, name, value, priority)
    /\ prev' = c
    /\ last' = [op |-> "Add", name |-> name, value |-> value, priority |-> priority]
    /\ got' = notCalled
    /\ UNCHANGED <<pkg, panicked, initial, colorVars, vendorVars, styleVars>>

AddMoreCall(name, value, priority) ==
    /\ pkg = "govfx" /\ ~panicked /\ calls < MaxCalls
    /\ calls' = calls + 1
    /\ LET r == AddMore(c, name, value, priority)
       IN  c' = r.map /\ panicked' = r.panic
    /\ prev' = c
    /\ last' = [op |-> "AddMore", name |-> name, value |-> value, priority |-> priority]
    /\ got' = notCalled
    /\ UNCHANGED <<pkg, initial, colorVars, vendorVars, styleVars>>

GetCall(name) ==
    /\ pkg = "govfx" /\ ~panicked /\ calls < MaxCalls
    /\ calls' = calls + 1
    /\ got' = [done |-> TRUE, cs |-> Get(c, name).cs, err |-> Get(c, name).err]
    /\ prev' = c
    /\ last' = [op |-> "Get", name |-> name]
    /\ UNCHANGED <<pkg, c, panicked, initial, colorVars, vendorVars, styleVars>>

VfxAddCall(name, value, priority) ==
    /\ pkg = "vfx" /\ calls < MaxCalls
    /\ calls' = calls + 1
    /\ c' = vfxAdd(c, name, value, priority)
    /\ prev' = c
    /\ last' = [op |-> "Add", name |-> name, value |-> value, priority |-> priority]
    /\ got' = notCalled
    /\ UNCHANGED <<pkg, panicked, initial, colorVars, vendorVars, styleVars>>

VfxGetCall(name) ==
    /\ pkg = "vfx" /\ calls < MaxCalls
    /\ calls' = calls + 1
    /\ got' = [done |-> TRUE, cs |-> vfxGet(c, name).cs, err |-> vfxGet(c, name).err]
    /\ prev' = c
    /\ last' = [op |-> "Get", name |-> name]
    /\ UNCHANGED <<pkg, c, panicked, initial, colorVars, vendorVars, styleVars>>

Next ==
    \/ \E name \in Names, value \in Values, priority \in BOOLEAN :
          AddCall(name, value, priority)
    \/ \E name \in Names, value \in Values, priority \in BOOLEAN :
          AddMoreCall(name, value, priority)
    \/ \E name \in Names : GetCall(name)
    \/ \E name \in Names, value \in Values, priority \in BOOLEAN :
          VfxAddCall(name, value, priority)
    \/ \E name \in Names : VfxGetCall(name)

Spec == Init /\ [][Next]_vars

---------------------------------------------------------------------------
(* The vendor loop on one key: GetComputedStyleMap over a computed style   *)
(* that holds the key alone, then over a style that holds the resulting    *)
(* map's key alone.                                                        *)

\* The longest key, in pieces.
MaxPieces == 3

Pieces ==
    {vendorTags[i] : i \in 1..Len(vendorTags)}
        \cup {Dashed(vendorTags[i]) : i \in 1..Len(vendorTags)}
        \cup {Dashed(webkit), top, orderProp, <<"-">>}

RECURSIVE KeysUpTo(_)
KeysUpTo(n) ==
    IF n = 0 THEN {<<>>}
    ELSE LET shorter == KeysUpTo(n - 1)
         IN  shorter \cup {piece \o k : piece \in Pieces, k \in shorter}

VendorKeys == KeysUpTo(MaxPieces) \ {<<>>}

StyleOfOne(k) ==
    [nil |-> FALSE,
     props |-> (k :> [val |-> rotate9, priority |-> [nil |-> FALSE, str |-> <<>>]]) @@ emptyMap]

InitVendor ==
    /\ pkg = "govfx"
    /\ key \in VendorKeys
    /\ first = notCalled /\ second = notCalled
    /\ IdleColor /\ IdleMap /\ IdleStyle

StyleOfKey ==
    /\ ~first.done
    /\ first' = [done |-> TRUE, map |-> GetComputedStyleMap(StyleOfOne(key), <<key>>).map]
    /\ UNCHANGED <<pkg, key, second, colorVars, mapVars, styleVars>>

StyleOfResult ==
    /\ first.done /\ ~second.done
    /\ \E k \in DOMAIN first.map :
          second' = [done |-> TRUE, map |-> GetComputedStyleMap(StyleOfOne(k), <<k>>).map]
    /\ UNCHANGED <<pkg, key, first, colorVars, mapVars, styleVars>>

NextVendor == StyleOfKey \/ StyleOfResult

SpecVendor == InitVendor /\ [][NextVendor]_vars

---------------------------------------------------------------------------
(* GetComputedStyleMap over a computed style of several keys, range        *)
(* yielding them in any order.                                             *)

\* The most keys in a computed style.
MaxKeys == 2

StyleKeys ==
    {transform, top, Dashed(webkit) \o transform}
        \cup {Vendorize(transform)[i] : i \in 1..Len(vendorTags)}

StyleVals == {none, rotate9}

StylePriorities ==
    {[nil |-> TRUE, str |-> <<>>], [nil |-> FALSE, str |-> <<>>],
     [nil |-> FALSE, str |-> important]}

StyleEntries == [val : StyleVals, priority : StylePriorities]

Styles ==
    {[nil |-> TRUE, props |-> emptyMap]}
        \cup {[nil |-> FALSE, props |-> f] :
                f \in UNION {[K -> StyleEntries] :
                                K \in {S \in SUBSET StyleKeys : Cardinality(S) <= MaxKeys}}}

\* Every order range may yield the keys of S in.
Orders(S) ==
    {f \in [1..Cardinality(S) -> S] : \A i, j \in 1..Cardinality(S) : i # j => f[i] # f[j]}

InitStyle ==
    /\ pkg = "govfx"
    /\ css \in Styles
    /\ keyOrder = <<>> /\ styleMap = notCalled
    /\ IdleColor /\ IdleVendor /\ IdleMap

CallGetComputedStyleMap ==
    /\ ~styleMap.done
    /\ \E keys \in Orders(DOMAIN css.props) :
          /\ keyOrder' = keys
          /\ LET r == GetComputedStyleMap(css, keys)
             IN  styleMap' = [done |-> TRUE, nil |-> r.nil, map |-> r.map, err |-> r.err]
    /\ UNCHANGED <<pkg, css, colorVars, vendorVars, mapVars>>

NextStyle == CallGetComputedStyleMap

SpecStyle == InitStyle /\ [][NextStyle]_vars

---------------------------------------------------------------------------
(* Properties.                                                             *)

\* The digits of a colour string, and the byte its i-th component stands for.
HexDigitsOf(h) == IF h[1] = "#" THEN Tail(h) ELSE h

ByteOf(digits, i) ==
    IF Len(digits) = 3 THEN 17 * HexDigitValue(digits[i])
    ELSE 16 * HexDigitValue(digits[2 * i - 1]) + HexDigitValue(digits[2 * i])

TwoDecimals(a) ==
    <<DecDigits[(a \div 100) + 1], ".", DecDigits[((a \div 10) % 10) + 1], DecDigits[(a % 10) + 1]>>

ExpectedRgba(h, a) ==
    <<"r", "g", "b", "a", "(">> \o FormatInt(ByteOf(HexDigitsOf(h), 1)) \o <<",">>
        \o FormatInt(ByteOf(HexDigitsOf(h), 2)) \o <<",">>
        \o FormatInt(ByteOf(HexDigitsOf(h), 3)) \o <<",">> \o TwoDecimals(a) \o <<")">>

Rgba255Half ==
    <<"r", "g", "b", "a", "(", "2", "5", "5", ",", "2", "5", "5", ",", "2", "5", "5", ",",
      "0", ".", "5", "0", ")">>

\* C1: for every valid 3- or 6-digit hexadecimal colour, with or without '#',
\* and every alpha in 0..100, RGBA returns "rgba(R,G,B,F)" with R, G, B the
\* bytes the digits stand for and F = alpha/100 with two decimals; RGBA("fff",
\* 50) is "rgba(255,255,255,0.50)".
C1_RGBACorrect ==
    rgba.done =>
        /\ rgba.str = ExpectedRgba(hex, alpha)
        /\ (hex = fff /\ alpha = 50) => rgba.str = Rgba255Half

C1_Witness ==
    /\ pkg = "govfx" /\ rgba.done
    /\ hex = <<"#", "0", "a", "9", "F", "0", "f">> /\ alpha = 5
    /\ rgba.str = <<"r", "g", "b", "a", "(", "1", "0", ",", "1", "5", "9", ",", "1", "5", ",",
                    "0", ".", "0", "5", ")">>

GetOf(m, name) == IF pkg = "govfx" THEN Get(m, name) ELSE vfxGet(m, name)
HasOf(m, name) == IF pkg = "govfx" THEN Has(m, name) ELSE vfxHas(m, name)

\* C2: after Add(name, value, priority) on an empty map, Get(name) returns no
\* error and a record with exactly that Value and that Priority.
C2_AddThenGet ==
    (last.op = "Add" /\ prev = emptyMap) =>
        /\ GetOf(c, last.name).err = Nil
        /\ GetOf(c, last.name).cs.Value = last.value
        /\ GetOf(c, last.name).cs.Priority = last.priority

C2_Witness ==
    /\ pkg = "govfx" /\ last.op = "Add" /\ prev = emptyMap
    /\ last.value = scale2 /\ last.priority
    /\ Get(c, last.name) = [cs |-> ComputedStyle(last.name, last.name, scale2, <<scale2>>, TRUE),
                            err |-> Nil]

\* Whether the key starts with a tag of vendorTags, bare or between dashes.
CarriesVendorTag(k) ==
    \E i \in 1..Len(vendorTags) :
        HasPrefix(k, vendorTags[i]) \/ HasPrefix(k, Dashed(vendorTags[i]))

\* C3: the loop over vendorTags leaves a key that carries no vendor prefix as
\* it is, so the property is stored in the map under its own name.
C3_UnprefixedKept ==
    (first.done /\ ~CarriesVendorTag(key)) =>
        /\ DOMAIN first.map = {key}
        /\ first.map[key].Name = key

C3_Witness ==
    /\ first.done /\ key = orderProp /\ ~CarriesVendorTag(key)
    /\ DOMAIN first.map = {orderProp}

\* C4: Get of a name the map does not hold returns a nil record and
\* ErrNotFound and leaves the map as it was; Get returns no error exactly when
\* Has(name) is true.
C4_GetNotFound ==
    last.op = "Get" =>
        /\ c = prev
        /\ (got.err = Nil) <=> HasOf(c, last.name)
        /\ ~HasOf(c, last.name) => (got.cs = NilStyle /\ got.err = ErrNotFound)
        /\ HasOf(c, last.name) => got.cs = c[last.name]

C4_Witness ==
    /\ pkg = "govfx" /\ last.op = "Get"
    /\ c # emptyMap /\ ~Has(c, last.name)
    /\ got.cs = NilStyle /\ got.err = ErrNotFound

\* The vendors a browser prefixes property names with.
BrowserVendors == {<<"m", "o", "z">>, webkit, <<"O">>, <<"m", "s">>}

\* C5: for every key "-vendor-p" of the computed style, vendor being moz,
\* webkit, O or ms, the map holds under p a record with Name p and VendorName
\* the key.
C5_VendoredNamesCleaned ==
    (styleMap.done /\ ~styleMap.nil) =>
        \A k \in DOMAIN css.props : \A vendor \in BrowserVendors : \A p \in {transform, top} :
            k = Dashed(vendor) \o p =>
                /\ Has(styleMap.map, p)
                /\ styleMap.map[p].Name = p
                /\ styleMap.map[p].VendorName = k

\* Whether two values have the same setter name.
SameSetter(a, b) ==
    /\ ~propNameSubmatch(a).nil /\ ~propNameSubmatch(b).nil
    /\ propNameSubmatch(a).group1 = propNameSubmatch(b).group1

Nameless(values, value) ==
    \/ propNameSubmatch(value).nil
    \/ \E i \in 1..Len(values) : propNameSubmatch(values[i]).nil

\* value took the place of every entry of old with its setter name, or, no
\* entry having it, was appended; the other entries are where they were.
MergedOrAppended(old, new, value) ==
    /\ \E i \in 1..Len(new) : new[i] = value
    /\ IF \E i \in 1..Len(old) : SameSetter(old[i], value)
       THEN /\ Len(new) = Len(old)
            /\ \A i \in 1..Len(old) :
                  new[i] = IF SameSetter(old[i], value) THEN value ELSE old[i]
       ELSE new = Append(old, value)

CreatedByAddMore ==
    /\ ~panicked
    /\ Has(c, last.name)
    /\ c[last.name].Value = last.value
    /\ c[last.name].Values = <<last.value>>
    /\ c[last.name].Priority = last.priority

\* C6 as stated, of values that contain a setter name: AddMore creates the
\* record of an absent name, and for a name the map holds it replaces in place
\* every entry with the setter name of value, or appends value when there is
\* none, and keeps every other entry.
C6_MergeOrAppend ==
    (pkg = "govfx" /\ last.op = "AddMore") =>
        IF ~Has(prev, last.name) THEN CreatedByAddMore
        ELSE ~Nameless(prev[last.name].Values, last.value) =>
                MergedOrAppended(prev[last.name].Values, c[last.name].Values, last.value)

\* C6 amended: as stated, except that a Values list that is exactly <<"none">>
\* becomes <<value>>, and that otherwise the call panics when value or an
\* entry of Values contains no setter name.
C6_MergeOrAppendAmended ==
    (pkg = "govfx" /\ last.op = "AddMore") =>
        IF ~Has(prev, last.name) THEN CreatedByAddMore
        ELSE IF prev[last.name].Values = <<none>>
        THEN ~panicked /\ c[last.name].Values = <<last.value>>
        ELSE IF Nameless(prev[last.name].Values, last.value) THEN panicked
        ELSE /\ ~panicked
             /\ MergedOrAppended(prev[last.name].Values, c[last.name].Values, last.value)

C6_Witness ==
    /\ pkg = "govfx" /\ last.op = "AddMore" /\ ~panicked
    /\ Has(prev, last.name)
    /\ prev[last.name].Values = <<rotate9, scale2>>
    /\ last.value = scale3
    /\ c[last.name].Values = <<rotate9, scale3>>

\* C7 as stated: the loop over vendorTags, applied to its own result, gives
\* that result again, whatever the key.
C7_StripIdempotent ==
    second.done => DOMAIN second.map = DOMAIN first.map

\* Whether the key is a name without vendor tag, or one tag before such a name.
AtMostOneTag(k) ==
    \/ ~CarriesVendorTag(k)
    \/ \E i \in 1..Len(vendorTags) :
          \/ HasPrefix(k, vendorTags[i]) /\ ~CarriesVendorTag(TrimPrefix(k, vendorTags[i]))
          \/ /\ HasPrefix(k, Dashed(vendorTags[i]))
             /\ ~CarriesVendorTag(TrimPrefix(k, Dashed(vendorTags[i])))

\* C7 amended: the loop applied to its own result gives that result again for
\* every key that is one vendor tag, bare or between dashes, before a name
\* that starts with none, and for every key that starts with none.
C7_StripIdempotentOneTag ==
    (second.done /\ AtMostOneTag(key)) => DOMAIN second.map = DOMAIN first.map

C7_Witness ==
    /\ second.done
    /\ key = Dashed(<<"m", "s">>) \o orderProp
    /\ DOMAIN first.map = {orderProp}
    /\ DOMAIN second.map = {orderProp}

\* C8: after any calls of Add and AddMore on a map that started empty, every
\* record has its key as Name, at least one entry in Values, and no two
\* entries of Values with the same setter name.
C8_RecordsWellFormed ==
    (pkg = "govfx" /\ initial = emptyMap) =>
        \A n \in DOMAIN c :
            /\ c[n].Name = n
            /\ Len(c[n].Values) >= 1
            /\ \A i, j \in 1..Len(c[n].Values) :
                  i # j => ~SameSetter(c[n].Values[i], c[n].Values[j])

C8_Witness ==
    /\ pkg = "govfx" /\ initial = emptyMap /\ last.op = "AddMore" /\ ~panicked
    /\ Has(prev, last.name)
    /\ Len(prev[last.name].Values) = 2
    /\ Len(c[last.name].Values) = 2
    /\ c[last.name].Values # prev[last.name].Values

\* C9: AddMore on a name the map holds changes the Values of that record and
\* nothing else: its Value, Priority, Name and VendorName and every other
\* record are as before.
C9_AddMoreFrame ==
    (pkg = "govfx" /\ last.op = "AddMore" /\ Has(prev, last.name)) =>
        /\ DOMAIN c = DOMAIN prev
        /\ \A n \in DOMAIN prev :
              IF n = last.name
              THEN /\ c[n].Value = prev[n].Value
                   /\ c[n].Priority = prev[n].Priority
                   /\ c[n].Name = prev[n].Name
                   /\ c[n].VendorName = prev[n].VendorName
              ELSE c[n] = prev[n]

C9_Witness ==
    /\ pkg = "govfx" /\ last.op = "AddMore" /\ ~panicked
    /\ Has(prev, last.name)
    /\ Cardinality(DOMAIN c) = 2
    /\ c[last.name].Values # prev[last.name].Values
    /\ c[last.name].Priority # last.priority
    /\ c[last.name].VendorName # c[last.name].Name
    /\ \A i \in 1..Len(c[last.name].Values) : c[last.name].Values[i] # c[last.name].Value

\* C10: over one computed style GetComputedStyleMap gives the same map in
\* whatever order range yields the keys, two keys that strip to one name
\* included.
C10_OrderIndependent ==
    styleMap.done =>
        \A keys \in Orders(DOMAIN css.props) :
            GetComputedStyleMap(css, keys).map = styleMap.map

====
